---- MODULE Spec2Model ----
(***************************************************************************)
(* Model of the MultiSelect autocomplete component                         *)
(* (src/src/components/MultiSelect.tsx) and of the useDebounce hook        *)
(* (src/unnamed/part_001, lines 19-55).                                    *)
(*                                                                         *)
(* One action per event handler or callback.  Every handler runs to        *)
(* completion on the UI thread, so a handler is one atomic step; the       *)
(* asynchronous search callback is two steps, the part before the await    *)
(* (TimerFire) and the continuation after it (RequestSuccess /             *)
(* RequestFail).                                                           *)
(***************************************************************************)
EXTENDS Integers, Sequences, FiniteSets

\* ---------------------------------------------------------------- bounds
MaxChanges == 2      \* input changes per behaviour (caps timers and requests)
MaxResults == 3      \* longest result list a successful response carries

\* ------------------------------------------------------- values and inputs
Null == "null"       \* the null of `error` (useState<string | null>(null))
NoTimer == 0         \* the null of timeoutRef.current (falsy, like null)

\* The terms the user can have in the input box after a change.
Terms == {"", "ri", "mo"}

\* The names of the characters of the remote catalogue.
NamePool == <<"Rick", "Morty">>

\* Character i of the remote catalogue: { id, name } of interface Character.
\* Ids are unique and names repeat, so a result list can hold two characters
\* of one name.
Character(i) == [id |-> i, name |-> NamePool[((i - 1) % Len(NamePool)) + 1]]

Labels == {Character(i).name : i \in 1..MaxResults}

\* response.data.results of a successful response: a non-empty list.
ResultLists == {[i \in 1..n |-> Character(i)] : n \in 1..MaxResults}

\* The AxiosError caught by handleSearch: with or without a response.
AxiosErrors ==
  {[hasResponse |-> FALSE, status |-> 0]}
    \cup {[hasResponse |-> TRUE, status |-> s] : s \in {400, 404, 500}}

VARIABLES
  selectedOptions,   \* useState<string[]>([])
  searchTerm,        \* useState("")
  loading,           \* useState<boolean>(false)
  error,             \* useState<string | null>(null)
  results,           \* useState<Character[]>([])
  highlightedIndex,  \* useState<number>(0), 0-based as in the code
  timeoutRef,        \* useDebounce: timeoutRef.current
  timers,            \* the runtime's pending timeouts: [id, term]
  inflight,          \* axios requests awaiting their response: [id, term]
  mounted,           \* the component is mounted
  changes,           \* history: number of input changes so far
  started,           \* history: number of search callback invocations
  last,              \* history: the last step and its input
  prevToggle         \* history: the toggle before the last step, when both steps are toggles

vars == <<selectedOptions, searchTerm, loading, error, results,
          highlightedIndex, timeoutRef, timers, inflight, mounted,
          changes, started, last, prevToggle>>

Min(a, b) == IF a < b THEN a ELSE b
Max(a, b) == IF a > b THEN a ELSE b

\* Array.prototype.includes on a string[].
Includes(list, x) == \E i \in 1..Len(list) : list[i] = x

\* Array.prototype.filter((item) => item !== option).
RECURSIVE FilterOut(_, _)
FilterOut(list, option) ==
  IF list = <<>> THEN <<>>
  ELSE IF Head(list) = option THEN FilterOut(Tail(list), option)
       ELSE <<Head(list)>> \o FilterOut(Tail(list), option)

\* History records. A toggle (an option click, or Enter on a highlighted
\* result) records the label and the selection it was applied to.
NoEvent == [op |-> "init", term |-> "", arg |-> "", sel |-> <<>>]
Event(op, term, arg) == [op |-> op, term |-> term, arg |-> arg, sel |-> <<>>]
ToggleEvent(op, label) ==
  [op |-> op, term |-> "", arg |-> label, sel |-> selectedOptions]
IsToggle(e) == e.op = "OptionClick" \/ (e.op = "Enter" /\ e.arg # "")

Init ==
  /\ selectedOptions = <<>>
  /\ searchTerm = ""
  /\ loading = FALSE
  /\ error = Null
  /\ results = <<>>
  /\ highlightedIndex = 0
  /\ timeoutRef = NoTimer
  /\ timers = {}
  /\ inflight = {}
  /\ mounted = TRUE
  /\ changes = 0
  /\ started = 0
  /\ last = NoEvent
  /\ prevToggle = NoEvent

\* --------------------------------------------------------------- debounce
\* clearTimeout(id): drops the pending timeout of that id, if there is one.
ClearTimeout(pending, id) == {t \in pending : t.id # id}

\* Mutant of DebouncedCallback: schedules without cancelling the pending call.
DebouncedCallbackNoCancel(term) ==
  /\ timers' = timers \cup {[id |-> changes + 1, term |-> term]}
  /\ timeoutRef' = changes + 1

\* debouncedCallback(...args): cancel the pending call, schedule a new one.
\* setTimeout hands out fresh positive ids.
DebouncedCallback(term) ==
  LET id == changes + 1
      kept == IF timeoutRef # NoTimer THEN ClearTimeout(timers, timeoutRef)
              ELSE timers
  IN /\ timers' = kept \cup {[id |-> id, term |-> term]}
     /\ timeoutRef' = id

\* handleInputChange: setSearchTerm(value); handleSearch(value).
HandleInputChange(value) ==
  /\ mounted
  /\ changes < MaxChanges
  /\ searchTerm' = value
  /\ DebouncedCallback(value)
  /\ changes' = changes + 1
  /\ last' = Event("InputChange", value, "")
  /\ prevToggle' = NoEvent
  /\ UNCHANGED <<selectedOptions, loading, error, results, highlightedIndex,
                 inflight, mounted, started>>

\* The timeout fires and runs callback(...args): handleSearch up to the await.
TimerFire(t) ==
  /\ t \in timers
  /\ timers' = timers \ {t}
  /\ loading' = TRUE
  /\ inflight' = inflight \cup {[id |-> started + 1, term |-> t.term]}
  /\ started' = started + 1
  /\ last' = Event("TimerFire", t.term, "")
  /\ prevToggle' = NoEvent
  /\ UNCHANGED <<selectedOptions, searchTerm, error, results,
                 highlightedIndex, timeoutRef, mounted, changes>>

\* Mutant of Unmount: the effect returns no cleanup, the timer stays pending.
UnmountNoCleanup ==
  /\ mounted
  /\ mounted' = FALSE
  /\ last' = Event("Unmount", "", 0)
  /\ prevToggle' = NoEvent
  /\ UNCHANGED <<selectedOptions, searchTerm, loading, error, results,
                 highlightedIndex, timeoutRef, timers, inflight, changes,
                 started>>

\* The cleanup of useDebounce's effect, run when the component unmounts.
Unmount ==
  /\ mounted
  /\ mounted' = FALSE
  /\ timers' = IF timeoutRef # NoTimer THEN ClearTimeout(timers, timeoutRef)
               ELSE timers
  /\ last' = Event("Unmount", "", Cardinality(timers \ timers'))
  /\ prevToggle' = NoEvent
  /\ UNCHANGED <<selectedOptions, searchTerm, loading, error, results,
                 highlightedIndex, timeoutRef, inflight, changes, started>>

\* ------------------------------------------------------------ handleSearch
NetworkErrorMessage == "Something wrong with network"
NotFoundMessage == "No results found"
ServerErrorMessage == "Something wrong with server"

\* Mutant of ClassifyError: the 404 case is missing.
ClassifyErrorNo404(err) ==
  IF ~err.hasResponse THEN NetworkErrorMessage ELSE ServerErrorMessage

\* The catch block's classification of the AxiosError.
ClassifyError(err) ==
  IF ~err.hasResponse THEN NetworkErrorMessage
  ELSE IF err.status = 404 THEN NotFoundMessage
       ELSE ServerErrorMessage

\* Mutant of RequestSuccess: the response of a request that is not the
\* newest one is dropped (a sequence guard).
RequestSuccessGuarded(r, list) ==
  /\ r \in inflight
  /\ inflight' = inflight \ {r}
  /\ IF r.id # started
       THEN UNCHANGED <<results, highlightedIndex, error>>
       ELSE /\ IF r.term # ""
                 THEN /\ results' = list
                      /\ UNCHANGED highlightedIndex
                 ELSE /\ results' = <<>>
                      /\ highlightedIndex' = 0
            /\ error' = Null
  /\ loading' = FALSE
  /\ last' = Event("RequestSuccess", r.term, list)
  /\ prevToggle' = NoEvent
  /\ UNCHANGED <<selectedOptions, searchTerm, timeoutRef, timers, mounted,
                 changes, started>>

\* Mutant of RequestSuccess: a new result list resets the selection.
RequestSuccessClearsSelection(r, list) ==
  /\ r \in inflight
  /\ inflight' = inflight \ {r}
  /\ IF r.term # ""
       THEN /\ results' = list
            /\ UNCHANGED highlightedIndex
       ELSE /\ results' = <<>>
            /\ highlightedIndex' = 0
  /\ selectedOptions' = <<>>
  /\ error' = Null
  /\ loading' = FALSE
  /\ last' = Event("RequestSuccess", r.term, list)
  /\ prevToggle' = NoEvent
  /\ UNCHANGED <<searchTerm, timeoutRef, timers, mounted, changes, started>>

\* The continuation of handleSearch after a resolved await: the rest of the
\* try block, then the finally block.  Nothing in handleSearch looks at the
\* mount state, so the continuations run their setters after an unmount too.
RequestSuccess(r, list) ==
  /\ r \in inflight
  /\ inflight' = inflight \ {r}
  /\ IF r.term # ""
       THEN /\ results' = list
            /\ UNCHANGED highlightedIndex
       ELSE /\ results' = <<>>
            /\ highlightedIndex' = 0
  /\ error' = Null
  /\ loading' = FALSE
  /\ last' = Event("RequestSuccess", r.term, list)
  /\ prevToggle' = NoEvent
  /\ UNCHANGED <<selectedOptions, searchTerm, timeoutRef, timers, mounted,
                 changes, started>>

\* Mutant of RequestFail: the failed request is issued again.
RequestFailRetries(r, err) ==
  /\ r \in inflight
  /\ inflight' = (inflight \ {r}) \cup {[id |-> started + 1, term |-> r.term]}
  /\ started' = started + 1
  /\ error' = ClassifyError(err)
  /\ results' = <<>>
  /\ loading' = TRUE
  /\ last' = Event("RequestFail", r.term, err)
  /\ prevToggle' = NoEvent
  /\ UNCHANGED <<selectedOptions, searchTerm, highlightedIndex, timeoutRef,
                 timers, mounted, changes>>

\* Mutant of RequestFail: the catch block does not clear the results.
RequestFailKeepsResults(r, err) ==
  /\ r \in inflight
  /\ inflight' = inflight \ {r}
  /\ error' = ClassifyError(err)
  /\ loading' = FALSE
  /\ last' = Event("RequestFail", r.term, err)
  /\ prevToggle' = NoEvent
  /\ UNCHANGED <<selectedOptions, searchTerm, results, highlightedIndex,
                 timeoutRef, timers, mounted, changes, started>>

\* Mutant of RequestFail: setLoading(false) only on the success path, no
\* finally block.
RequestFailNoFinally(r, err) ==
  /\ r \in inflight
  /\ inflight' = inflight \ {r}
  /\ error' = ClassifyError(err)
  /\ results' = <<>>
  /\ last' = Event("RequestFail", r.term, err)
  /\ prevToggle' = NoEvent
  /\ UNCHANGED <<selectedOptions, searchTerm, loading, highlightedIndex,
                 timeoutRef, timers, mounted, changes, started>>

\* The continuation of handleSearch after a rejected await: the catch block,
\* then the finally block.
RequestFail(r, err) ==
  /\ r \in inflight
  /\ inflight' = inflight \ {r}
  /\ error' = ClassifyError(err)
  /\ results' = <<>>
  /\ loading' = FALSE
  /\ last' = Event("RequestFail", r.term, err)
  /\ prevToggle' = NoEvent
  /\ UNCHANGED <<selectedOptions, searchTerm, highlightedIndex, timeoutRef,
                 timers, mounted, changes, started>>

\* --------------------------------------------------------------- selection
\* Mutant of ToggleOption: appends without looking for the option.
ToggleOptionAlwaysAppend(list, option) == Append(list, option)

\* handleOptionClick's new selection: deselect when selected, else append.
ToggleOption(list, option) ==
  IF Includes(list, option) THEN FilterOut(list, option)
  ELSE Append(list, option)

\* Mutant of RemoveOption: removes by position, the last label when the
\* option is not found (splice(indexOf(option), 1)).
RemoveOptionSplice(list, option) ==
  IF Includes(list, option) THEN FilterOut(list, option)
  ELSE SubSeq(list, 1, Len(list) - 1)

\* handleRemoveOption's new selection.
RemoveOption(list, option) == FilterOut(list, option)

\* A click on row i of the dropdown: handleOptionClick(result.name).
HandleOptionClick(i) ==
  /\ mounted
  /\ i \in 1..Len(results)
  /\ selectedOptions' = ToggleOption(selectedOptions, results[i].name)
  /\ last' = ToggleEvent("OptionClick", results[i].name)
  /\ prevToggle' = IF IsToggle(last) THEN last ELSE NoEvent
  /\ UNCHANGED <<searchTerm, loading, error, results, highlightedIndex,
                 timeoutRef, timers, inflight, mounted, changes, started>>

\* A click on the remove button of chip i: handleRemoveOption(option).
HandleRemoveOption(i) ==
  /\ mounted
  /\ i \in 1..Len(selectedOptions)
  /\ selectedOptions' = RemoveOption(selectedOptions, selectedOptions[i])
  /\ last' = Event("RemoveOption", "", selectedOptions[i])
  /\ prevToggle' = NoEvent
  /\ UNCHANGED <<searchTerm, loading, error, results, highlightedIndex,
                 timeoutRef, timers, inflight, mounted, changes, started>>

\* ------------------------------------------------------------ handleKeyDown
\* case "ArrowDown": Math.min(prevIndex + 1, results.length - 1).
ArrowDownIndex(prevIndex, length) == Min(prevIndex + 1, length - 1)

\* case "ArrowUp": Math.max(prevIndex - 1, 0).
ArrowUpIndex(prevIndex) == Max(prevIndex - 1, 0)

\* case "Tab": the index after Tab (shiftKey false) or Shift+Tab.
TabIndex(shiftKey, index, length) ==
  IF shiftKey
    THEN IF index > 0 THEN index - 1 ELSE index
    ELSE IF index < length - 1 THEN index + 1 ELSE index

\* results[highlightedIndex] is defined (truthy).
HasHighlighted == highlightedIndex >= 0 /\ highlightedIndex < Len(results)

KeyFrame ==
  UNCHANGED <<searchTerm, loading, error, results, timeoutRef, timers,
              inflight, mounted, changes, started>>

KeyArrowDown ==
  /\ mounted
  /\ highlightedIndex' = ArrowDownIndex(highlightedIndex, Len(results))
  /\ last' = Event("ArrowDown", "", "")
  /\ prevToggle' = NoEvent
  /\ UNCHANGED selectedOptions
  /\ KeyFrame

KeyArrowUp ==
  /\ mounted
  /\ highlightedIndex' = ArrowUpIndex(highlightedIndex)
  /\ last' = Event("ArrowUp", "", "")
  /\ prevToggle' = NoEvent
  /\ UNCHANGED selectedOptions
  /\ KeyFrame

KeyTab(shiftKey) ==
  /\ mounted
  /\ highlightedIndex' = TabIndex(shiftKey, highlightedIndex, Len(results))
  /\ last' = Event(IF shiftKey THEN "ShiftTab" ELSE "Tab", "", "")
  /\ prevToggle' = NoEvent
  /\ UNCHANGED selectedOptions
  /\ KeyFrame

\* Mutant of KeyEnter: toggles the first result, whatever the index.
KeyEnterFirstRow ==
  /\ mounted
  /\ IF results # <<>>
       THEN /\ selectedOptions' = ToggleOption(selectedOptions, results[1].name)
            /\ last' = ToggleEvent("Enter", results[1].name)
            /\ prevToggle' = IF IsToggle(last) THEN last ELSE NoEvent
       ELSE /\ UNCHANGED selectedOptions
            /\ last' = Event("Enter", "", "")
            /\ prevToggle' = NoEvent
  /\ UNCHANGED highlightedIndex
  /\ KeyFrame

KeyEnter ==
  /\ mounted
  /\ IF HasHighlighted
       THEN /\ selectedOptions' =
                 ToggleOption(selectedOptions, results[highlightedIndex + 1].name)
            /\ last' = ToggleEvent("Enter", results[highlightedIndex + 1].name)
            /\ prevToggle' = IF IsToggle(last) THEN last ELSE NoEvent
       ELSE /\ UNCHANGED selectedOptions
            /\ last' = Event("Enter", "", "")
            /\ prevToggle' = NoEvent
  /\ UNCHANGED highlightedIndex
  /\ KeyFrame

\* Mutant of KeyBackspace: the search term is not looked at.
KeyBackspaceAnyTerm ==
  /\ mounted
  /\ IF Len(selectedOptions) > 0
       THEN selectedOptions' =
              RemoveOption(selectedOptions, selectedOptions[Len(selectedOptions)])
       ELSE UNCHANGED selectedOptions
  /\ last' = Event("Backspace", "", "")
  /\ prevToggle' = NoEvent
  /\ UNCHANGED highlightedIndex
  /\ KeyFrame

KeyBackspace ==
  /\ mounted
  /\ IF searchTerm = "" /\ Len(selectedOptions) > 0
       THEN selectedOptions' =
              RemoveOption(selectedOptions, selectedOptions[Len(selectedOptions)])
       ELSE UNCHANGED selectedOptions
  /\ last' = Event("Backspace", "", "")
  /\ prevToggle' = NoEvent
  /\ UNCHANGED highlightedIndex
  /\ KeyFrame

Next ==
  \/ \E value \in Terms : HandleInputChange(value)
  \/ \E t \in timers : TimerFire(t)
  \/ \E r \in inflight, list \in ResultLists : RequestSuccess(r, list)
  \/ \E r \in inflight, err \in AxiosErrors : RequestFail(r, err)
  \/ \E i \in 1..MaxResults : HandleOptionClick(i)
  \/ \E i \in 1..Len(NamePool) : HandleRemoveOption(i)
  \/ KeyArrowDown
  \/ KeyArrowUp
  \/ \E shiftKey \in BOOLEAN : KeyTab(shiftKey)
  \/ KeyEnter
  \/ KeyBackspace
  \/ Unmount

Spec == Init /\ [][Next]_vars

\* A pending timeout fires once its delay has elapsed, and every request
\* that was started settles, by a response or by an error.
Settle ==
  \E r \in inflight :
    \/ \E list \in ResultLists : RequestSuccess(r, list)
    \/ \E err \in AxiosErrors : RequestFail(r, err)

LiveSpec ==
  /\ Init
  /\ [][Next]_vars
  /\ WF_vars(\E t \in timers : TimerFire(t))
  /\ WF_vars(Settle)
\* ------------------------------------------------------------------ claims
InRange(index, length) == 0 <= index /\ index <= length - 1

\* C1: whenever results is non-empty, 0 <= highlightedIndex <= results.length - 1.
C1_HighlightInRange ==
  results # <<>> => InRange(highlightedIndex, Len(results))

\* C2: right after a failed query, a successful empty-term query or the start
\* of a new query, highlightedIndex = 0.
C2_ResetOnEmptyOrNewQuery ==
  (\/ last.op = "TimerFire"
   \/ last.op = "RequestFail"
   \/ (last.op = "RequestSuccess" /\ last.term = ""))
    => highlightedIndex = 0

\* C3: results and the error message are mutually exclusive: a failure leaves
\* results empty with a non-null error, a success leaves the error null, and
\* no state has both a non-null error and a non-empty results list.
C3_ResultsErrorExclusive ==
  /\ ~(error # Null /\ results # <<>>)
  /\ (last.op = "RequestFail" => results = <<>> /\ error # Null)
  /\ (last.op = "RequestSuccess" => error = Null)

\* C3 witness: a failure settles while another request is still in flight.
C3_Witness ==
  /\ last.op = "RequestFail"
  /\ inflight # {}
  /\ error # Null
  /\ results = <<>>

\* C4: at most one timer is pending at any time and it carries the term of
\* the last input change; each invocation of the search callback is one
\* request for that term and leaves no timer pending; and a pending timer
\* leads to an invocation unless the component is torn down first.
C4_Debounce ==
  /\ [][/\ Cardinality(timers') <= 1
        /\ \A t \in timers' : t.id = timeoutRef' /\ t.term = searchTerm'
        /\ (started' # started =>
              /\ started' = started + 1
              /\ timers' = {}
              /\ \E r \in inflight' \ inflight : r.term = searchTerm)]_vars
  /\ (timers # {} ~> (last.op = "TimerFire" \/ ~mounted))

\* C4 witness: two input changes with no firing in between, then the one
\* invocation, for the term of the second change.
C4_Witness ==
  /\ last.op = "TimerFire"
  /\ changes = 2
  /\ started = 1
  /\ timers = {}
  /\ \E r \in inflight : r.term = searchTerm

\* C5: teardown cancels the pending timer: once the component is unmounted
\* no timer is pending and no request is started.
C5_NoFireAfterTeardown ==
  [][/\ (~mounted' => timers' = {})
     /\ (~mounted => started' = started)]_vars

\* C5 witness: the component was unmounted while a timer was pending.
C5_Witness ==
  /\ last.op = "Unmount"
  /\ last.arg = 1
  /\ ~mounted
  /\ timers = {}

\* C6: loading is set true when a request starts and false when a request
\* settles, by success or by failure; it stays false until the next request
\* starts; and when every request settles, loading eventually is false.
C6_LoadingLifecycle ==
  /\ [][/\ (started' # started => loading')
        /\ (inflight' # inflight /\ started' = started => ~loading')
        /\ (~loading /\ loading' => started' # started)]_vars
  /\ (loading ~> ~loading)

\* C6 witness: a request has settled by failure and loading is false.
C6_Witness ==
  /\ last.op = "RequestFail"
  /\ inflight = {}
  /\ ~loading

\* C7: if at least one started request has not yet settled, loading is true.
C7_LoadingWhileInFlight == inflight # {} => loading

\* C8: a failure with no response sets "Something wrong with network", with
\* status 404 "No results found", with any other response "Something wrong
\* with server"; each clears results; error is never another non-null value.
C8_ErrorClassification ==
  /\ error \in {Null, "Something wrong with network", "No results found",
                "Something wrong with server"}
  /\ (last.op = "RequestFail" =>
        /\ results = <<>>
        /\ (~last.arg.hasResponse => error = "Something wrong with network")
        /\ (last.arg.hasResponse /\ last.arg.status = 404
              => error = "No results found")
        /\ (last.arg.hasResponse /\ last.arg.status # 404
              => error = "Something wrong with server"))

\* C8 witness: a failure with a response whose status is not 404.
C8_Witness ==
  /\ last.op = "RequestFail"
  /\ last.arg.hasResponse
  /\ last.arg.status = 500
  /\ error = "Something wrong with server"

\* C9: once the query of an empty term settles, results are empty and
\* highlightedIndex is 0; a success of it never stores the returned list.
C9_EmptyTermSettles ==
  (last.op \in {"RequestSuccess", "RequestFail"} /\ last.term = "")
    => results = <<>> /\ highlightedIndex = 0

ToSet(list) == {list[i] : i \in 1..Len(list)}

\* The last two steps toggled one label.
ToggledTwice == IsToggle(last) /\ IsToggle(prevToggle) /\ prevToggle.arg = last.arg

\* C10: toggling a label twice in a row returns the selection list to its
\* original contents and order.
C10_ToggleTwiceRestores == ToggledTwice => selectedOptions = prevToggle.sel

\* C10 as amended: toggling a label twice in a row returns the selection to
\* its original contents; the order is the original one when the label was
\* not selected or was the last of the list, and else the label has moved
\* to the end.
C10_ToggleTwiceContents ==
  ToggledTwice =>
    /\ ToSet(selectedOptions) = ToSet(prevToggle.sel)
    /\ Len(selectedOptions) = Len(prevToggle.sel)
    /\ (\/ ~Includes(prevToggle.sel, last.arg)
        \/ prevToggle.sel[Len(prevToggle.sel)] = last.arg)
         => selectedOptions = prevToggle.sel
    /\ Includes(prevToggle.sel, last.arg)
         => selectedOptions[Len(selectedOptions)] = last.arg

\* C10 witness: the label toggled twice was selected and not the last one.
C10_Witness ==
  /\ ToggledTwice
  /\ Includes(prevToggle.sel, last.arg)
  /\ prevToggle.sel[Len(prevToggle.sel)] # last.arg
  /\ selectedOptions # prevToggle.sel
\* The list without its element at position i.
RemoveAt(list, i) == SubSeq(list, 1, i - 1) \o SubSeq(list, i + 1, Len(list))

Distinct(list) ==
  \A i, j \in 1..Len(list) : list[i] = list[j] => i = j

\* C11: the selected labels are pairwise distinct and in the order in which
\* they were added: a step leaves the list as it is, appends a label that is
\* not in it, or takes one label out from among the others.
C11_SelectionDistinctOrdered ==
  [][/\ Distinct(selectedOptions')
     /\ \/ selectedOptions' = selectedOptions
        \/ \E label \in Labels :
             /\ ~Includes(selectedOptions, label)
             /\ selectedOptions' = Append(selectedOptions, label)
        \/ \E i \in 1..Len(selectedOptions) :
             selectedOptions' = RemoveAt(selectedOptions, i)]_vars

\* C11 witness: two results share the name that was just toggled, and two
\* labels are selected.
C11_Witness ==
  /\ IsToggle(last)
  /\ Len(results) = 3
  /\ results[1].name = results[3].name
  /\ last.arg = results[1].name
  /\ Len(selectedOptions) = 2
\* ------------------------------------------------- the selection operations
\* handleOptionClick and handleRemoveOption as functions of the selection
\* list and a label, applied to every duplicate-free selection of up to
\* MaxSelected labels and to every label, selected or not.
MaxSelected == 3

SelectionLabels == {"Rick", "Morty", "Summer", "Beth"}

Selections ==
  {list \in UNION {[1..n -> SelectionLabels] : n \in 0..MaxSelected} :
     Distinct(list)}

SelectionEvent(op, label) ==
  [op |-> op, term |-> "", arg |-> label, sel |-> selectedOptions]

SelectionFrame ==
  UNCHANGED <<searchTerm, loading, error, results, highlightedIndex,
              timeoutRef, timers, inflight, mounted, changes, started>>

SelectionInit ==
  /\ selectedOptions \in Selections
  /\ searchTerm = ""
  /\ loading = FALSE
  /\ error = Null
  /\ results = <<>>
  /\ highlightedIndex = 0
  /\ timeoutRef = NoTimer
  /\ timers = {}
  /\ inflight = {}
  /\ mounted = TRUE
  /\ changes = 0
  /\ started = 0
  /\ last = NoEvent
  /\ prevToggle = NoEvent

\* handleRemoveOption(option).
ApplyRemoveOption(option) ==
  /\ selectedOptions' = RemoveOption(selectedOptions, option)
  /\ last' = SelectionEvent("RemoveOption", option)
  /\ prevToggle' = NoEvent
  /\ SelectionFrame

\* handleOptionClick(option).
ApplyOptionClick(option) ==
  /\ selectedOptions' = ToggleOption(selectedOptions, option)
  /\ last' = SelectionEvent("OptionClick", option)
  /\ prevToggle' = NoEvent
  /\ SelectionFrame

SelectionNext ==
  \/ \E option \in SelectionLabels : ApplyRemoveOption(option)
  \/ \E option \in SelectionLabels : ApplyOptionClick(option)

SelectionSpec == SelectionInit /\ [][SelectionNext]_vars

\* C12: removing a label that is not selected leaves the selection list as
\* it was; removing a selected label takes out exactly that label and keeps
\* the others in their order.
C12_RemoveOption ==
  last.op = "RemoveOption" =>
    IF Includes(last.sel, last.arg)
      THEN /\ ~Includes(selectedOptions, last.arg)
           /\ \E i \in 1..Len(last.sel) :
                /\ last.sel[i] = last.arg
                /\ selectedOptions = RemoveAt(last.sel, i)
      ELSE selectedOptions = last.sel

\* C12 witness: a label that was not selected has been removed from a
\* selection of several labels.
C12_Witness ==
  /\ last.op = "RemoveOption"
  /\ ~Includes(last.sel, last.arg)
  /\ Len(last.sel) >= 2
  /\ selectedOptions = last.sel
\* C13: after ArrowDown the highlighted index is at most results.length - 1
\* and not outside the index range, also with an empty results list; after
\* ArrowUp it is not below 0.
C13_ArrowsStayInRange ==
  /\ last.op = "ArrowDown" =>
       /\ highlightedIndex >= 0
       /\ (results # <<>> => highlightedIndex <= Len(results) - 1)
  /\ last.op = "ArrowUp" => highlightedIndex >= 0

\* C14: in every state Tab yields the highlighted index ArrowDown yields,
\* and Shift+Tab the one ArrowUp yields.
C14_TabLikeArrows ==
  /\ TabIndex(FALSE, highlightedIndex, Len(results))
       = ArrowDownIndex(highlightedIndex, Len(results))
  /\ TabIndex(TRUE, highlightedIndex, Len(results))
       = ArrowUpIndex(highlightedIndex)
\* C15: Backspace removes the last label of the selection list when the
\* search term is empty and a label is selected, and leaves the list
\* unchanged otherwise.
C15_Backspace ==
  [][last'.op = "Backspace" =>
       IF searchTerm = "" /\ selectedOptions # <<>>
         THEN selectedOptions' =
                SubSeq(selectedOptions, 1, Len(selectedOptions) - 1)
         ELSE selectedOptions' = selectedOptions]_vars

\* C15 witness: Backspace with an empty term has left one label, so it
\* removed the second of two.
C15_Witness ==
  /\ last.op = "Backspace"
  /\ searchTerm = ""
  /\ Len(selectedOptions) = 1

\* C16: Enter toggles the result at the highlighted index when there is
\* one (appends its name when not selected, removes it when selected) and
\* else changes nothing; it never changes the index or the results.
C16_Enter ==
  [][last'.op = "Enter" =>
       /\ highlightedIndex' = highlightedIndex
       /\ results' = results
       /\ IF 0 <= highlightedIndex /\ highlightedIndex <= Len(results) - 1
            THEN LET name == results[highlightedIndex + 1].name
                 IN IF \E i \in 1..Len(selectedOptions) : selectedOptions[i] = name
                      THEN /\ \A i \in 1..Len(selectedOptions') :
                                selectedOptions'[i] # name
                           /\ \E i \in 1..Len(selectedOptions) :
                                selectedOptions' = RemoveAt(selectedOptions, i)
                      ELSE selectedOptions' = selectedOptions \o <<name>>
            ELSE selectedOptions' = selectedOptions]_vars

\* C16 witness: Enter has added the highlighted result, not the first row.
C16_Witness ==
  /\ last.op = "Enter"
  /\ highlightedIndex = 1
  /\ Len(results) >= 2
  /\ last.arg = results[2].name
  /\ ~Includes(last.sel, last.arg)
  /\ selectedOptions = Append(last.sel, last.arg)

\* C17: the selection list changes only by an option click, Enter, a chip
\* removal or Backspace; input changes, timer firings, request starts,
\* responses and failures leave it unchanged.
C17_SelectionPersists ==
  [][/\ (selectedOptions' # selectedOptions =>
           last'.op \in {"OptionClick", "Enter", "RemoveOption", "Backspace"})
     /\ (last'.op \in {"InputChange", "TimerFire", "RequestSuccess",
                       "RequestFail"}
           => selectedOptions' = selectedOptions)]_vars

\* C17 witness: a response has replaced the results of an earlier query
\* while a label is selected.
C17_Witness ==
  /\ last.op = "RequestSuccess"
  /\ started = 2
  /\ results # <<>>
  /\ selectedOptions # <<>>
\* C18: responses are applied in arrival order with no sequence guard: a
\* successful response always sets the results (its list for a non-empty
\* term, the empty list for an empty term) and clears the error, and a
\* failure always sets the error and clears the results, whether or not a
\* newer request has been started or has already settled.
C18_NoSequenceGuard ==
  [][/\ (last'.op = "RequestSuccess" =>
           /\ results' = IF last'.term # "" THEN last'.arg ELSE <<>>
           /\ error' = Null)
     /\ (last'.op = "RequestFail" =>
           /\ results' = <<>>
           /\ error' # Null)]_vars

\* C18 witness: two requests overlapped, the newer one (for the current
\* search term) settled first, and the response to the older one, for
\* another term, arrived last: the results are those of the older term.
C18_Witness ==
  /\ last.op = "RequestSuccess"
  /\ changes = 2
  /\ started = 2
  /\ inflight = {}
  /\ last.term # searchTerm
  /\ last.term # ""
  /\ results = last.arg

\* C19: a request is started only by a timer firing, a timer is scheduled
\* only by an input change, a failed request starts and schedules nothing,
\* and the requests started never outnumber the input changes.
C19_NoRetry ==
  [][/\ (started' # started =>
           /\ started' = started + 1
           /\ \E t \in timers : timers' = timers \ {t})
     /\ (~(timers' \subseteq timers) => changes' = changes + 1)
     /\ (last'.op = "RequestFail" =>
           /\ started' = started
           /\ timers' = timers
           /\ inflight' \subseteq inflight)
     /\ started' + Cardinality(timers') <= changes']_vars

\* C19 witness: the one request has failed; nothing is pending or in flight.
C19_Witness ==
  /\ last.op = "RequestFail"
  /\ started = 1
  /\ changes = 1
  /\ timers = {}
  /\ inflight = {}
\* ------------------------------------------------------ highlightSearchTerm
\* Strings as sequences of characters, for the names and terms of the model.
Chars(str) ==
  CASE str = "" -> <<>>
    [] str = "ri" -> <<"r", "i">>
    [] str = "mo" -> <<"m", "o">>
    [] str = "Rick" -> <<"R", "i", "c", "k">>
    [] str = "Morty" -> <<"M", "o", "r", "t", "y">>

\* String.prototype.toLowerCase, on one character and on a string.
LowerChar(c) ==
  CASE c = "R" -> "r"
    [] c = "M" -> "m"
    [] OTHER -> c

ToLowerCase(str) == [i \in 1..Len(str) |-> LowerChar(str[i])]

\* The characters of str from offset from up to offset to (0-based, to
\* excluded): String.prototype.substring.
Substring(str, from, to) == SubSeq(str, from + 1, to)

\* new RegExp(`(${searchTerm})`, "gi") matches at offset q of text: the term
\* stands there, ignoring case (the empty term matches at every offset).
MatchesAt(text, term, q) ==
  /\ q + Len(term) <= Len(text)
  /\ \A k \in 1..Len(term) : LowerChar(text[q + k]) = LowerChar(term[k])

\* text.split(regexp) with one capture group around the term: the pieces
\* between the matches, each followed by the text the group captured.  A
\* match that ends where the current piece starts is skipped, so the empty
\* term splits between any two characters and captures "" there.
RECURSIVE SplitFrom(_, _, _, _)
SplitFrom(text, term, p, q) ==
  IF q >= Len(text) THEN <<Substring(text, p, Len(text))>>
  ELSE IF MatchesAt(text, term, q)
         THEN LET e == Min(q + Len(term), Len(text))
              IN IF e = p THEN SplitFrom(text, term, p, q + 1)
                 ELSE <<Substring(text, p, q), Substring(text, q, e)>>
                        \o SplitFrom(text, term, e, e)
         ELSE SplitFrom(text, term, p, q + 1)

Split(text, term) ==
  IF text = <<>>
    THEN IF MatchesAt(text, term, 0) THEN <<>> ELSE <<text>>
    ELSE SplitFrom(text, term, 0, 0)

\* highlightSearchTerm(text, searchTerm): the parts of the split, a part
\* wrapped in <strong> when it equals the term ignoring case.
HighlightSearchTerm(text, term) ==
  LET parts == Split(text, term)
  IN [i \in 1..Len(parts) |->
        [part |-> parts[i],
         strong |-> ToLowerCase(parts[i]) = ToLowerCase(term)]]

\* The rendering of the label of row i of the dropdown:
\* highlightSearchTerm(result.name, searchTerm).
RenderedLabel(i) ==
  HighlightSearchTerm(Chars(results[i].name), Chars(searchTerm))

RECURSIVE Concat(_)
Concat(segments) ==
  IF segments = <<>> THEN <<>>
  ELSE Head(segments).part \o Concat(Tail(segments))

\* The segments concatenate to the label, and exactly those equal to the
\* term ignoring case are emphasized.
SplitsAndEmphasizes(segments, label, term) ==
  /\ Concat(segments) = label
  /\ \A k \in 1..Len(segments) :
       segments[k].strong <=>
         (/\ Len(segments[k].part) = Len(term)
          /\ \A j \in 1..Len(term) :
               LowerChar(segments[k].part[j]) = LowerChar(term[j]))

\* C20: for an empty search term a label is rendered as one segment, the
\* whole label, not emphasized; for a non-empty term the segments
\* concatenate to the label and exactly those equal to the term ignoring
\* case are emphasized.
C20_Highlight ==
  \A i \in 1..Len(results) :
    LET label == Chars(results[i].name)
    IN IF searchTerm = ""
         THEN RenderedLabel(i) = <<[part |-> label, strong |-> FALSE]>>
         ELSE SplitsAndEmphasizes(RenderedLabel(i), label, Chars(searchTerm))
====
